---- MODULE Spec2Model ----
(***************************************************************************)
(* Model of the demo-recorder command line entry point (cli.py, main), of  *)
(* the task-runner pipeline it drives (task_runner.py, run_tasks, with the *)
(* helpers run_tasks calls) and of DiffAnalyzer.analyze                    *)
(* (diff_analyzer.py).  One action per statement group of the source; the  *)
(* outcome of every call into a collaborator (the file system, git, Xvfb,  *)
(* ffmpeg, ffprobe, the browser agent, the HTTP store) is drawn from the   *)
(* outcomes that call can produce.                                         *)
(***************************************************************************)
EXTENDS Integers, Sequences, FiniteSets, TLC

\* ---------------------------------------------------------------- bounds
MaxTasks == 1      \* longest task array given on the command line
MaxVideos == 2     \* most video files the browser writes in one session
MaxEvents == 1     \* most interaction events extracted from one history
MaxActions == 2    \* most actions of a history when the events are the subject
MaxFiles == 2      \* most files git names in one listing

\* ------------------------------------------------------- python values
\* A Python value is a tagged record, so that values of different Python
\* types can sit in the same variable.
None_ == [t |-> "None"]
Bool(b) == [t |-> "bool", v |-> b]
Str(s) == [t |-> "str", v |-> s]
IntV(n) == [t |-> "int", v |-> n]
Dict(f) == [t |-> "dict", v |-> f]

\* Text is a sequence of one-character strings.
S_pass == <<"p", "a", "s", "s">>
S_fail == <<"f", "a", "i", "l">>
S_PASS == <<"P", "A", "S", "S">>
S_FAIL == <<"F", "A", "I", "L">>
S_Maybe == <<"M", "a", "y", "b", "e">>
S_maybe == <<"m", "a", "y", "b", "e">>
S_ok == <<"o", "k">>
S_why == <<"w", "h", "y">>
S_done == <<"d", "o", "n", "e">>

\* bool(x) of Python for the value shapes the model uses.
Truthy(x) ==
    CASE x.t = "None" -> FALSE
      [] x.t = "bool" -> x.v
      [] x.t = "str" -> x.v /= <<>>
      [] x.t = "int" -> x.v /= 0
      [] x.t = "dict" -> DOMAIN x.v /= {}
      [] OTHER -> TRUE

\* a or b
Or(a, b) == IF Truthy(a) THEN a ELSE b

\* d.get(k)
Get(d, k) == IF k \in DOMAIN d.v THEN d.v[k] ELSE None_

\* str.lower(), character by character
UpperToLower ==
    ("A" :> "a") @@ ("F" :> "f") @@ ("I" :> "i") @@ ("L" :> "l")
    @@ ("M" :> "m") @@ ("P" :> "p") @@ ("S" :> "s")

LowerChar(c) == IF c \in DOMAIN UpperToLower THEN UpperToLower[c] ELSE c

Lower(s) == [i \in 1..Len(s) |-> LowerChar(s[i])]

\* ------------------------------------------------- verdict resolution
\* ResolveVerdict with the string branch forgetting lower().
ResolveVerdictNoLower(judgement, is_done) ==
    IF Truthy(judgement)
    THEN LET raw == Get(judgement, "verdict")
         IN  IF raw.t = "bool" THEN (IF raw.v THEN S_pass ELSE S_fail)
             ELSE IF raw.t = "str" THEN raw.v
             ELSE (IF is_done THEN S_pass ELSE S_fail)
    ELSE (IF is_done THEN S_pass ELSE S_fail)

\* task_runner.py:448-455 and 460: the verdict label from the judgement.
ResolveVerdict(judgement, is_done) ==
    IF Truthy(judgement)
    THEN LET raw == Get(judgement, "verdict")
         IN  IF raw.t = "bool" THEN (IF raw.v THEN S_pass ELSE S_fail)
             ELSE IF raw.t = "str" THEN Lower(raw.v)
             ELSE (IF is_done THEN S_pass ELSE S_fail)
    ELSE (IF is_done THEN S_pass ELSE S_fail)

\* task_runner.py:456-458 and 461: the reasoning text.
ResolveReasoning(judgement, final_result) ==
    IF Truthy(judgement)
    THEN Or(Get(judgement, "reasoning"),
            Or(Get(judgement, "failure_reason"), Or(final_result, Str(<<>>))))
    ELSE Or(final_result, Str(<<>>))

\* What history.judgement() can hand back: nothing, or a dict whose three
\* keys are each present or not.
VerdictStrings == {S_pass, S_PASS, S_FAIL, S_fail, S_Maybe}
VerdictValues ==
    {Bool(TRUE), Bool(FALSE), IntV(1)} \cup {Str(s) : s \in VerdictStrings}
TextValues(s) == {Str(<<>>), Str(s)}
JudgementKeys == {"verdict", "reasoning", "failure_reason"}
KeyValues(k) ==
    CASE k = "verdict" -> VerdictValues
      [] k = "reasoning" -> TextValues(S_ok)
      [] k = "failure_reason" -> TextValues(S_why)
JudgementDicts ==
    UNION { { f \in [K -> VerdictValues \cup TextValues(S_ok) \cup TextValues(S_why)] :
                \A k \in K : f[k] \in KeyValues(k) } : K \in SUBSET JudgementKeys }
Judgements == {None_} \cup {Dict(f) : f \in JudgementDicts}
FinalResults == {None_, Str(<<>>), Str(S_done)}

\* ------------------------------------------------------ command line
\* The --tasks argument as json.loads sees it: text that does not parse,
\* a JSON value that is not an array, or an array of elements.  An element
\* is a complete task object, an object lacking one key, or not an object.
ElementKinds == {"task", "no_id", "no_description", "not_object"}
TaskArrays == UNION { [1..n -> ElementKinds] : n \in 0..MaxTasks }
TasksArgs ==
    {[json |-> "invalid", elems |-> <<>>], [json |-> "object", elems |-> <<>>]}
    \cup {[json |-> "array", elems |-> a] : a \in TaskArrays}

\* task_runner.py:268-297.  The first loop reads task['description'] of
\* every element, the join then reads tasks[i]['id']; the result is the
\* exception raised, or the prompt (its numbered steps).
RECURSIVE FirstBad(_, _, _)
FirstBad(tasks, bad, i) ==
    IF i > Len(tasks) THEN 0
    ELSE IF tasks[i] \in bad THEN i
    ELSE FirstBad(tasks, bad, i + 1)

build_prompt(tasks) ==
    LET d == FirstBad(tasks, {"not_object", "no_description"}, 1)
        k == FirstBad(tasks, {"no_id"}, 1)
    IN  IF d > 0
        THEN [raise |-> IF tasks[d] = "not_object" THEN "TypeError" ELSE "KeyError",
              steps |-> 0]
        ELSE IF k > 0 THEN [raise |-> "KeyError", steps |-> 0]
        ELSE [raise |-> "", steps |-> Len(tasks)]

\* ------------------------------------------------- interaction events
\* task_runner.py:419 and 438: the fixed splash-screen offset.
trim_offset_ms == 6500

\* One action of a history step: its kind, and whether the result metadata
\* and the action parameters carry coordinates.
NoXY == [x |-> -1, y |-> -1]
MetaXY == [x |-> 100, y |-> 200]
ParamXY == [x |-> 300, y |-> 400]
ActionSamples ==
    { [type |-> "click_element", meta |-> MetaXY, params |-> NoXY],
      [type |-> "click_element", meta |-> NoXY, params |-> NoXY],
      [type |-> "scroll_down", meta |-> NoXY, params |-> NoXY],
      [type |-> "go_to_url", meta |-> NoXY, params |-> NoXY] }
\* step_start_time - recording_start_time, in milliseconds
StepTimes == {-1000, 3000, 9000}

\* task_runner.py:136-146: the coordinates of one action (-1 for None).
click_x(a) == IF a.meta.x /= -1 THEN a.meta.x ELSE a.params.x
click_y_of_either(a) == IF a.meta.y /= -1 THEN a.meta.y ELSE a.params.y
click_y(a) == IF a.meta.x /= -1 THEN a.meta.y ELSE a.params.y

Max(a, b) == IF a >= b THEN a ELSE b

\* task_runner.py:153-179: the events one action yields at step time t.
ActionEvents(a, t) ==
    IF a.type \in {"click_element", "click", "input_text", "type"}
    THEN IF click_x(a) /= -1 /\ click_y(a) /= -1
         THEN <<[type |-> "click", atMs |-> t, x |-> click_x(a), y |-> click_y(a)]>>
         ELSE <<>>
    ELSE IF a.type \in {"scroll_down", "scroll_up", "scroll"}
    THEN <<[type |-> "scroll", atMs |-> t, x |-> 960, y |-> 540]>>
    ELSE <<>>

RECURSIVE StepEvents(_, _)
StepEvents(actions, t) ==
    IF actions = <<>> THEN <<>>
    ELSE ActionEvents(Head(actions), t) \o StepEvents(Tail(actions), t)

\* task_runner.py:114-117: the step's offset, 0 without timing metadata.
step_time_ms(step) == IF step.metadata THEN Max(0, step.time) ELSE 0

RECURSIVE WalkHistory(_)
WalkHistory(steps) ==
    IF steps = <<>> THEN <<>>
    ELSE StepEvents(Head(steps).actions, step_time_ms(Head(steps)))
         \o WalkHistory(Tail(steps))

\* list.sort(key=atMs): a stable insertion sort.
RECURSIVE InsertSortedBeforeTies(_, _)
InsertSortedBeforeTies(sorted, e) ==
    IF sorted = <<>> THEN <<e>>
    ELSE IF Head(sorted).atMs < e.atMs
    THEN <<Head(sorted)>> \o InsertSortedBeforeTies(Tail(sorted), e)
    ELSE <<e>> \o sorted

RECURSIVE InsertSorted(_, _)
InsertSorted(sorted, e) ==
    IF sorted = <<>> THEN <<e>>
    ELSE IF Head(sorted).atMs <= e.atMs
    THEN <<Head(sorted)>> \o InsertSorted(Tail(sorted), e)
    ELSE <<e>> \o sorted

RECURSIVE SortByAtMs(_)
SortByAtMs(events) ==
    IF events = <<>> THEN <<>>
    ELSE InsertSorted(SortByAtMs(SubSeq(events, 1, Len(events) - 1)),
                      events[Len(events)])

\* task_runner.py:102-182
extract_interaction_events(steps) == SortByAtMs(WalkHistory(steps))

\* The histories an agent session can leave with at most n actions in all
\* (one step of up to n actions, or up to n steps of one action), the steps
\* that carry timing metadata in chronological order.
StepsOf(n) ==
    { [metadata |-> TRUE, time |-> t, actions |-> a] :
        t \in StepTimes, a \in [1..n -> ActionSamples] }
    \cup { [metadata |-> FALSE, time |-> 0, actions |-> a] :
             a \in [1..n -> ActionSamples] }
Chronological(h) ==
    \A i, j \in 1..Len(h) :
        (i < j /\ h[i].metadata /\ h[j].metadata) => h[i].time <= h[j].time
HistoriesUpTo(m) ==
    {<<>>}
    \cup UNION { {<<st>> : st \in StepsOf(n)} : n \in 1..m }
    \cup { h \in UNION { [1..n -> StepsOf(1)] : n \in 2..m } :
             Chronological(h) }
Histories == HistoriesUpTo(MaxEvents)

\* Every kind of action the extraction tells apart, with every way the
\* result metadata and the action parameters can carry coordinates: both,
\* none, or one of the two.
ActionTypes ==
    {"click_element", "click", "input_text", "type",
     "scroll_down", "scroll_up", "scroll", "go_to_url"}
MetaOptions ==
    {NoXY, MetaXY, [x |-> 100, y |-> -1], [x |-> -1, y |-> 200]}
ParamOptions ==
    {NoXY, ParamXY, [x |-> 300, y |-> -1], [x |-> -1, y |-> 400]}
AllActions == [type : ActionTypes, meta : MetaOptions, params : ParamOptions]

\* The histories drawn when the events are the subject: every single
\* action at every step time, and the longer histories over the samples.
EventHistories ==
    HistoriesUpTo(MaxActions)
    \cup { <<[metadata |-> TRUE, time |-> t, actions |-> <<a>>]>> :
             t \in StepTimes, a \in AllActions }

RebaseEventsNoFloor(events) ==
    [i \in 1..Len(events) |->
        [events[i] EXCEPT !.atMs = events[i].atMs - trim_offset_ms]]

\* task_runner.py:438-440: rebase the events after a trim.
RebaseEvents(events) ==
    [i \in 1..Len(events) |->
        [events[i] EXCEPT !.atMs = Max(0, events[i].atMs - trim_offset_ms)]]

\* -------------------------------------------------------------- upload
\* What one HTTP call can come to: a transport error or timeout (httpx
\* raises), a status other than 200, a 200 whose body lacks the value, or
\* a 200 carrying it.
Responses == {"error", "non200", "ok_empty", "ok"}
ViewableUrl == Str(<<"https://store/video">>)
StorageRef == Str(<<"convex:storage:", "sid">>)

\* task_runner.py:187-248.  r1, r2, r3 are what the three calls would come
\* to; the result names the calls made, whether the function raised, and
\* the value returned.
upload_to_convex(r1, r2, r3) ==
    IF r1 = "error" THEN [calls |-> <<r1>>, raise |-> TRUE, url |-> None_]
    ELSE IF r1 /= "ok" THEN [calls |-> <<r1>>, raise |-> FALSE, url |-> None_]
    ELSE IF r2 = "error" THEN [calls |-> <<r1, r2>>, raise |-> TRUE, url |-> None_]
    ELSE IF r2 /= "ok" THEN [calls |-> <<r1, r2>>, raise |-> FALSE, url |-> None_]
    ELSE IF r3 = "error" THEN [calls |-> <<r1, r2, r3>>, raise |-> TRUE, url |-> None_]
    ELSE IF r3 = "ok" THEN [calls |-> <<r1, r2, r3>>, raise |-> FALSE, url |-> ViewableUrl]
    ELSE [calls |-> <<r1, r2, r3>>, raise |-> FALSE, url |-> StorageRef]

\* ------------------------------------------------------ video probing
\* What ffprobe can come to for one file: a duration is printed, it is
\* not, or the tool times out or is not installed.
ProbeOutcomes == {"valid", "corrupt", "error"}

\* task_runner.py:467-485: the candidate the loop ends with (0 for None).
\* Every candidate that probes as valid, or whose probe raises, is assigned.
RECURSIVE ProbeLoop(_, _, _)
ProbeLoop(outcomes, i, final) ==
    IF i > Len(outcomes) THEN final
    ELSE ProbeLoop(outcomes, i + 1,
                   IF outcomes[i] \in {"valid", "error"} THEN i ELSE final)

final_video(outcomes) == ProbeLoop(outcomes, 1, 0)

\* --------------------------------------------------------------- state
VARIABLES
    pc,                 \* the statement about to run
    argv,               \* [tasks, headless, convex_url] of the command line
    tasks,              \* the parsed task list
    prompt,             \* the combined prompt
    out_dir,            \* the output directory and what is in it
    xvfb_proc,          \* run_tasks' local: "None" or "proc"
    ffmpeg_proc,        \* run_tasks' local: "None" or "proc"
    os_procs,           \* the two operating-system processes
    calls,              \* the collaborators called so far, in order
    history,            \* what the history accessors answered
    interaction_events, \* run_tasks' local
    trimmed,            \* whether the trimmed file replaced the recording
    verdict,            \* run_tasks' local
    verdict_reasoning,  \* run_tasks' local
    probes,             \* what probing said of each candidate
    final_video_path,   \* run_tasks' local, an index into the candidates
    upload,             \* the HTTP calls made by the upload
    video_url,          \* run_tasks' local
    raised,             \* the exception in flight, "" for none
    result,             \* the TasksResult run_tasks returns
    exit_code,          \* the exit status of the CLI process, -1 while running
    stdout,             \* the report lines main printed
    stderr,             \* the error lines main printed
    analyze_pc,         \* DiffAnalyzer.analyze: the statement about to run
    git,                \* what the last call of git came to
    changed,            \* analyze's local: the files git diff named
    ui_files,           \* analyze's local
    changes,            \* analyze's local: the UIChange list
    task,               \* the task text analyze returns
    analyze_raised      \* the exception that left analyze, "" for none

runner_vars == <<pc, argv, tasks, prompt, out_dir, xvfb_proc, ffmpeg_proc, os_procs,
                 calls, history, interaction_events, trimmed, verdict,
                 verdict_reasoning, probes, final_video_path, upload, video_url,
                 raised, result, exit_code, stdout, stderr>>
analyzer_vars ==
    <<analyze_pc, git, changed, ui_files, changes, task, analyze_raised>>
vars == <<runner_vars, analyzer_vars>>

NoHistory == [steps |-> <<>>, asked |-> FALSE, judgement |-> None_,
              is_done |-> FALSE, final_result |-> None_]

InitRunner ==
    /\ pc = "main"
    /\ argv \in [tasks : TasksArgs, headless : BOOLEAN, convex_url : BOOLEAN]
    /\ tasks = <<>>
    /\ prompt = 0
    /\ out_dir = [created |-> FALSE, videos |-> <<>>, summary |-> FALSE,
                  events_json |-> FALSE]
    /\ xvfb_proc = "None"
    /\ ffmpeg_proc = "None"
    /\ os_procs = [xvfb |-> "absent", ffmpeg |-> "absent"]
    /\ calls = <<>>
    /\ history = NoHistory
    /\ interaction_events = <<>>
    /\ trimmed = FALSE
    /\ verdict = None_
    /\ verdict_reasoning = None_
    /\ probes = <<>>
    /\ final_video_path = 0
    /\ upload = <<>>
    /\ video_url = None_
    /\ raised = ""
    /\ result = None_
    /\ exit_code = -1
    /\ stdout = <<>>
    /\ stderr = <<>>

\* DiffAnalyzer.analyze is not under way
InitAnalyzerIdle ==
    /\ analyze_pc = "idle"
    /\ git = "none"
    /\ changed = <<>>
    /\ ui_files = <<>>
    /\ changes = <<>>
    /\ task = <<>>
    /\ analyze_raised = ""

Init == InitRunner /\ InitAnalyzerIdle

\* ------------------------------------------------------------- results
\* str(exc): the text of an exception; TimeoutError carries none.
ExcText(e) == IF e = "TimeoutError" THEN Str(<<>>) ELSE Str(<<e>>)

\* task_runner.py:516-525
SuccessResult ==
    [t |-> "TasksResult", tasks |-> tasks, prompt |-> prompt, success |-> TRUE,
     verdict |-> verdict, verdict_reasoning |-> verdict_reasoning,
     error |-> None_, video_url |-> video_url,
     interaction_events |-> interaction_events]

FailureResultKeepingVerdict(e) ==
    [t |-> "TasksResult", tasks |-> tasks, prompt |-> prompt, success |-> FALSE,
     verdict |-> verdict, verdict_reasoning |-> verdict_reasoning,
     error |-> ExcText(e), video_url |-> video_url,
     interaction_events |-> interaction_events]

\* task_runner.py:529-535: the dataclass defaults fill the other fields.
FailureResult(e) ==
    [t |-> "TasksResult", tasks |-> tasks, prompt |-> prompt, success |-> FALSE,
     verdict |-> None_, verdict_reasoning |-> None_,
     error |-> ExcText(e), video_url |-> None_,
     interaction_events |-> <<>>]

\* --------------------------------------------------------- video files
Recording == [name |-> "recording", n |-> 0, ext |-> "mp4"]
PageVideo(i) == [name |-> "page", n |-> i, ext |-> "webm"]

\* ------------------------------------------------- process supervision
\* task_runner.py:75-86.  poll() finds the process gone ("noop"); the quit
\* key is taken within 10 s ("graceful"); the try block raises and the
\* process dies within 5 s of kill() ("killed"); or that last wait times
\* out too ("raise"), and TimeoutExpired leaves the function.
stop_screen_recording(os_state) ==
    IF os_state = "running" THEN {"noop", "graceful", "killed", "raise"}
    ELSE {"noop"}

\* task_runner.py:89-97.  terminate() and wait, kill() on TimeoutExpired.
stop_xvfb(os_state) ==
    IF os_state = "running" THEN {"noop", "terminated", "killed"}
    ELSE {"noop"}

\* ------------------------------------------------------------ cli.main
\* cli.py:76-98
main_parse ==
    /\ pc = "main"
    /\ UNCHANGED analyzer_vars
    /\ IF argv.tasks.json = "invalid"
       THEN /\ stderr' = <<[key |-> "ERROR", value |-> Str(<<"--tasks is not valid JSON">>)]>>
            /\ exit_code' = 1
            /\ pc' = "exit"
            /\ tasks' = tasks
       ELSE IF argv.tasks.json /= "array" \/ argv.tasks.elems = <<>>
       THEN /\ stderr' = <<[key |-> "ERROR", value |-> Str(<<"--tasks must be a non-empty JSON array">>)]>>
            /\ exit_code' = 1
            /\ pc' = "exit"
            /\ tasks' = tasks
       ELSE /\ tasks' = argv.tasks.elems
            /\ pc' = "mkdir"
            /\ UNCHANGED <<stderr, exit_code>>
    /\ UNCHANGED <<argv, prompt, out_dir, xvfb_proc, ffmpeg_proc,
                     os_procs, calls, history, interaction_events,
                     trimmed, verdict, verdict_reasoning, probes,
                     final_video_path, upload, video_url, raised, result,
                     stdout>>

\* ------------------------------------------------------------ run_tasks
\* task_runner.py:323-336, before the try block
run_tasks_mkdir ==
    /\ pc = "mkdir"
    /\ UNCHANGED analyzer_vars
    /\ \E ok \in BOOLEAN :
          IF ok
          THEN /\ out_dir' = [out_dir EXCEPT !.created = TRUE]
               /\ pc' = "build_prompt"
               /\ raised' = raised
          ELSE /\ raised' = "OSError"
               /\ pc' = "propagate"
               /\ out_dir' = out_dir
    /\ UNCHANGED <<argv, tasks, prompt, xvfb_proc, ffmpeg_proc, os_procs,
                     calls, history, interaction_events, trimmed,
                     verdict, verdict_reasoning, probes,
                     final_video_path, upload, video_url, result,
                     exit_code, stdout, stderr>>

\* task_runner.py:338-352, before the try block
run_tasks_build_prompt ==
    /\ pc = "build_prompt"
    /\ UNCHANGED analyzer_vars
    /\ LET r == build_prompt(tasks)
       IN  IF r.raise /= ""
           THEN /\ raised' = r.raise
                /\ pc' = "propagate"
                /\ prompt' = prompt
           ELSE /\ prompt' = r.steps
                /\ pc' = "start_xvfb"
                /\ raised' = raised
    /\ UNCHANGED <<argv, tasks, out_dir, xvfb_proc, ffmpeg_proc,
                     os_procs, calls, history, interaction_events,
                     trimmed, verdict, verdict_reasoning, probes,
                     final_video_path, upload, video_url, result,
                     exit_code, stdout, stderr>>

\* task_runner.py:354-359
run_tasks_start_xvfb ==
    /\ pc = "start_xvfb"
    /\ UNCHANGED analyzer_vars
    /\ IF argv.headless
       THEN \E o \in {"ok", "no_xvfb", "xdotool_fails"} :
               IF o = "no_xvfb"
               THEN /\ raised' = "FileNotFoundError"
                    /\ pc' = "except"
                    /\ UNCHANGED <<xvfb_proc, os_procs, calls>>
               ELSE /\ xvfb_proc' = "proc"
                    /\ os_procs' = [os_procs EXCEPT !.xvfb = "running"]
                    /\ calls' = Append(calls, "start_xvfb")
                    /\ IF o = "ok"
                       THEN pc' = "configure" /\ raised' = raised
                       ELSE pc' = "except" /\ raised' = "FileNotFoundError"
       ELSE /\ pc' = "configure"
            /\ UNCHANGED <<xvfb_proc, os_procs, calls, raised>>
    /\ UNCHANGED <<argv, tasks, prompt, out_dir, ffmpeg_proc, history,
                     interaction_events, trimmed, verdict,
                     verdict_reasoning, probes, final_video_path, upload,
                     video_url, result, exit_code, stdout, stderr>>

\* task_runner.py:361-392: browser profile, get_llm, Agent(...)
run_tasks_configure ==
    /\ pc = "configure"
    /\ UNCHANGED analyzer_vars
    /\ \E ok \in BOOLEAN :
          IF ok
          THEN pc' = "start_rec" /\ raised' = raised
          ELSE pc' = "except" /\ raised' = "ValueError"
    /\ UNCHANGED <<argv, tasks, prompt, out_dir, xvfb_proc, ffmpeg_proc,
                     os_procs, calls, history, interaction_events,
                     trimmed, verdict, verdict_reasoning, probes,
                     final_video_path, upload, video_url, result,
                     exit_code, stdout, stderr>>

\* task_runner.py:394-398
run_tasks_start_rec_any_mode ==
    /\ pc = "start_rec"
    /\ UNCHANGED analyzer_vars
    /\ \E ok \in BOOLEAN :
          IF ok
          THEN /\ ffmpeg_proc' = "proc"
               /\ os_procs' = [os_procs EXCEPT !.ffmpeg = "running"]
               /\ calls' = Append(calls, "start_screen_recording")
               /\ out_dir' = [out_dir EXCEPT !.videos = <<Recording>>]
               /\ pc' = "agent_run"
               /\ raised' = raised
          ELSE /\ raised' = "FileNotFoundError"
               /\ pc' = "except"
               /\ UNCHANGED <<ffmpeg_proc, os_procs, calls, out_dir>>
    /\ UNCHANGED <<argv, tasks, prompt, xvfb_proc, history,
                     interaction_events, trimmed, verdict,
                     verdict_reasoning, probes, final_video_path, upload,
                     video_url, result, exit_code, stdout, stderr>>

run_tasks_start_rec ==
    /\ pc = "start_rec"
    /\ UNCHANGED analyzer_vars
    /\ IF argv.headless
       THEN \E ok \in BOOLEAN :
               IF ok
               THEN /\ ffmpeg_proc' = "proc"
                    /\ os_procs' = [os_procs EXCEPT !.ffmpeg = "running"]
                    /\ calls' = Append(calls, "start_screen_recording")
                    /\ out_dir' = [out_dir EXCEPT !.videos = <<Recording>>]
                    /\ pc' = "agent_run"
                    /\ raised' = raised
               ELSE /\ raised' = "FileNotFoundError"
                    /\ pc' = "except"
                    /\ UNCHANGED <<ffmpeg_proc, os_procs, calls, out_dir>>
       ELSE /\ pc' = "agent_run"
            /\ UNCHANGED <<ffmpeg_proc, os_procs, calls, out_dir, raised>>
    /\ UNCHANGED <<argv, tasks, prompt, xvfb_proc, history,
                     interaction_events, trimmed, verdict,
                     verdict_reasoning, probes, final_video_path, upload,
                     video_url, result, exit_code, stdout, stderr>>

\* task_runner.py:401-402: the call of agent.run
run_tasks_agent_run ==
    /\ pc = "agent_run"
    /\ UNCHANGED analyzer_vars
    /\ calls' = Append(calls, "agent.run")
    /\ pc' = "agent_running"
    /\ UNCHANGED <<argv, tasks, prompt, out_dir, xvfb_proc, ffmpeg_proc,
                     os_procs, history, interaction_events, trimmed,
                     verdict, verdict_reasoning, probes,
                     final_video_path, upload, video_url, raised, result,
                     exit_code, stdout, stderr>>

\* task_runner.py:402: agent.run returns a history, raises, or the task is
\* cancelled while it waits.  Without the virtual display the browser
\* writes its own videos, one per page, into the output directory.
run_tasks_agent_done ==
    /\ pc = "agent_running"
    /\ UNCHANGED analyzer_vars
    /\ \E o \in {"returns", "AgentError", "TimeoutError", "CancelledError"} :
          /\ calls' = Append(calls, IF o = "returns" THEN "agent.returned" ELSE "agent.raised")
          /\ IF o = "returns"
             THEN /\ pc' = "extract"
                  /\ raised' = raised
                  /\ IF argv.headless
                     THEN out_dir' = out_dir
                     ELSE \E n \in 0..MaxVideos :
                             out_dir' = [out_dir EXCEPT !.videos = [i \in 1..n |-> PageVideo(i)]]
             ELSE /\ raised' = o
                  /\ pc' = IF o = "CancelledError" THEN "finally_ffmpeg" ELSE "except"
                  /\ out_dir' = out_dir
    /\ UNCHANGED <<argv, tasks, prompt, xvfb_proc, ffmpeg_proc, os_procs,
                     history, interaction_events, trimmed, verdict,
                     verdict_reasoning, probes, final_video_path, upload,
                     video_url, result, exit_code, stdout, stderr>>

\* task_runner.py:404-410: the events, then the two-second sleep, during
\* which the task can be cancelled
run_tasks_extract_from(histories) ==
    /\ pc = "extract"
    /\ UNCHANGED analyzer_vars
    /\ \E h \in histories :
          /\ history' = [history EXCEPT !.steps = h]
          /\ interaction_events' = extract_interaction_events(h)
    /\ \E cancelled \in BOOLEAN :
          IF cancelled
          THEN raised' = "CancelledError" /\ pc' = "finally_ffmpeg"
          ELSE raised' = raised /\ pc' = "stop_rec"
    /\ UNCHANGED <<argv, tasks, prompt, out_dir, xvfb_proc, ffmpeg_proc,
                     os_procs, calls, trimmed, verdict,
                     verdict_reasoning, probes, final_video_path, upload,
                     video_url, result, exit_code, stdout, stderr>>

run_tasks_extract == run_tasks_extract_from(Histories)

\* task_runner.py:412-415
run_tasks_stop_rec ==
    /\ pc = "stop_rec"
    /\ UNCHANGED analyzer_vars
    /\ IF ffmpeg_proc = "proc"
       THEN /\ calls' = Append(calls, "stop_screen_recording")
            /\ \E o \in stop_screen_recording(os_procs.ffmpeg) :
                  IF o = "raise"
                  THEN /\ raised' = "TimeoutExpired"
                       /\ pc' = "except"
                       /\ UNCHANGED <<ffmpeg_proc, os_procs>>
                  ELSE /\ os_procs' = [os_procs EXCEPT !.ffmpeg = "exited"]
                       /\ ffmpeg_proc' = "None"
                       /\ pc' = "trim"
                       /\ raised' = raised
       ELSE /\ pc' = "trim"
            /\ UNCHANGED <<calls, ffmpeg_proc, os_procs, raised>>
    /\ UNCHANGED <<argv, tasks, prompt, out_dir, xvfb_proc, history,
                     interaction_events, trimmed, verdict,
                     verdict_reasoning, probes, final_video_path, upload,
                     video_url, result, exit_code, stdout, stderr>>

\* What the trim run of ffmpeg can come to: the trimmed file is there and
\* not empty, the exit status is not 0, the file is missing, it is empty,
\* or subprocess.run raises TimeoutExpired after 30 s.  A missing ffmpeg
\* binary is not drawn here: the capture was started from the same binary
\* (run_tasks_start_rec raises when it is missing).
TrimOutcomes == {"ok", "nonzero", "missing", "empty", "timeout"}

\* task_runner.py:417-444
run_tasks_trim ==
    /\ pc = "trim"
    /\ UNCHANGED analyzer_vars
    /\ IF argv.headless
       THEN /\ calls' = Append(calls, "trim")
            /\ \E o \in TrimOutcomes :
                  IF o = "timeout"
                  THEN /\ raised' = "TimeoutExpired"
                       /\ pc' = "except"
                       /\ UNCHANGED <<trimmed, interaction_events>>
                  ELSE /\ pc' = "verdict"
                       /\ raised' = raised
                       /\ IF o = "ok"
                          THEN /\ trimmed' = TRUE
                               /\ interaction_events' = RebaseEvents(interaction_events)
                          ELSE UNCHANGED <<trimmed, interaction_events>>
       ELSE /\ pc' = "verdict"
            /\ UNCHANGED <<calls, raised, trimmed, interaction_events>>
    /\ UNCHANGED <<argv, tasks, prompt, out_dir, xvfb_proc, ffmpeg_proc,
                     os_procs, history, verdict, verdict_reasoning,
                     probes, final_video_path, upload, video_url, result,
                     exit_code, stdout, stderr>>

\* task_runner.py:446-463
run_tasks_verdict_from(judgements, final_results) ==
    /\ pc = "verdict"
    /\ UNCHANGED analyzer_vars
    /\ \E j \in judgements, d \in BOOLEAN, f \in final_results :
          /\ history' = [steps |-> <<>>, asked |-> TRUE, judgement |-> j,
                         is_done |-> d, final_result |-> f]
          /\ verdict' = Str(ResolveVerdict(j, d))
          /\ verdict_reasoning' = ResolveReasoning(j, f)
    /\ pc' = "probe"
    /\ UNCHANGED <<argv, tasks, prompt, out_dir, xvfb_proc, ffmpeg_proc,
                     os_procs, calls, interaction_events, trimmed,
                     probes, final_video_path, upload, video_url, raised,
                     result, exit_code, stdout, stderr>>

run_tasks_verdict == run_tasks_verdict_from(Judgements, FinalResults)

\* task_runner.py:465-485: glob lists the mp4 files, then the webm files.
\* The history object is not read after line 461: what its accessors
\* answered is dropped here.
run_tasks_probe ==
    /\ pc = "probe"
    /\ UNCHANGED analyzer_vars
    /\ \E o \in [1..Len(out_dir.videos) -> ProbeOutcomes] :
          /\ probes' = o
          /\ final_video_path' = final_video(o)
    /\ calls' = IF out_dir.videos = <<>> THEN calls ELSE Append(calls, "probe")
    /\ history' = NoHistory
    /\ pc' = "upload"
    /\ UNCHANGED <<argv, tasks, prompt, out_dir, xvfb_proc, ffmpeg_proc, os_procs,
                 interaction_events, trimmed, verdict, verdict_reasoning,
                 upload, video_url, raised, result, exit_code, stdout, stderr>>

\* task_runner.py:487-491
run_tasks_upload ==
    /\ pc = "upload"
    /\ UNCHANGED analyzer_vars
    /\ IF argv.convex_url /\ final_video_path /= 0
       THEN /\ calls' = Append(calls, "upload")
            /\ \E r1, r2, r3 \in Responses, cancelled \in BOOLEAN :
                  LET u == upload_to_convex(r1, r2, r3)
                  IN  /\ upload' = u.calls
                      /\ IF cancelled
                         THEN /\ raised' = "CancelledError"
                              /\ pc' = "finally_ffmpeg"
                              /\ video_url' = video_url
                         ELSE IF u.raise
                         THEN /\ raised' = "ConnectError"
                              /\ pc' = "except"
                              /\ video_url' = video_url
                         ELSE /\ video_url' = u.url
                              /\ pc' = "report"
                              /\ raised' = raised
       ELSE /\ pc' = "report"
            /\ UNCHANGED <<calls, upload, video_url, raised>>
    /\ UNCHANGED <<argv, tasks, prompt, out_dir, xvfb_proc, ffmpeg_proc,
                     os_procs, history, interaction_events, trimmed,
                     verdict, verdict_reasoning, probes,
                     final_video_path, result, exit_code, stdout, stderr>>

\* task_runner.py:493-525: summary.md, events.json, the result
run_tasks_report ==
    /\ pc = "report"
    /\ UNCHANGED analyzer_vars
    /\ \E o \in {"ok", "summary_fails", "events_fails"} :
          /\ out_dir' = [out_dir EXCEPT !.summary = (o /= "summary_fails"),
                                        !.events_json = (o = "ok")]
          /\ IF o = "ok"
             THEN /\ result' = SuccessResult
                  /\ pc' = "finally_ffmpeg"
                  /\ raised' = raised
             ELSE /\ raised' = "OSError"
                  /\ pc' = "except"
                  /\ result' = result
    /\ UNCHANGED <<argv, tasks, prompt, xvfb_proc, ffmpeg_proc, os_procs,
                     calls, history, interaction_events, trimmed,
                     verdict, verdict_reasoning, probes,
                     final_video_path, upload, video_url, exit_code,
                     stdout, stderr>>

\* task_runner.py:527-535
run_tasks_except ==
    /\ pc = "except"
    /\ UNCHANGED analyzer_vars
    /\ result' = FailureResult(raised)
    /\ raised' = ""
    /\ pc' = "finally_ffmpeg"
    /\ UNCHANGED <<argv, tasks, prompt, out_dir, xvfb_proc, ffmpeg_proc,
                     os_procs, calls, history, interaction_events,
                     trimmed, verdict, verdict_reasoning, probes,
                     final_video_path, upload, video_url, exit_code,
                     stdout, stderr>>

\* task_runner.py:537-540: an exception leaving stop_screen_recording
\* replaces the pending return and skips the rest of the finally block
run_tasks_finally_ffmpeg ==
    /\ pc = "finally_ffmpeg"
    /\ UNCHANGED analyzer_vars
    /\ IF ffmpeg_proc = "proc"
       THEN /\ calls' = Append(calls, "stop_screen_recording")
            /\ \E o \in stop_screen_recording(os_procs.ffmpeg) :
                  IF o = "raise"
                  THEN /\ raised' = "TimeoutExpired"
                       /\ result' = None_
                       /\ pc' = "propagate"
                       /\ os_procs' = os_procs
                  ELSE /\ os_procs' = [os_procs EXCEPT !.ffmpeg = "exited"]
                       /\ pc' = "finally_xvfb"
                       /\ UNCHANGED <<raised, result>>
       ELSE /\ pc' = "finally_xvfb"
            /\ UNCHANGED <<calls, os_procs, raised, result>>
    /\ UNCHANGED <<argv, tasks, prompt, out_dir, xvfb_proc, ffmpeg_proc,
                     history, interaction_events, trimmed, verdict,
                     verdict_reasoning, probes, final_video_path, upload,
                     video_url, exit_code, stdout, stderr>>

\* task_runner.py:541-542, then the return or the pending exception
run_tasks_finally_xvfb ==
    /\ pc = "finally_xvfb"
    /\ UNCHANGED analyzer_vars
    /\ IF xvfb_proc = "proc"
       THEN /\ calls' = Append(calls, "stop_xvfb")
            /\ \E o \in stop_xvfb(os_procs.xvfb) :
                  os_procs' = [os_procs EXCEPT !.xvfb = "exited"]
       ELSE UNCHANGED <<calls, os_procs>>
    /\ pc' = IF raised /= "" THEN "propagate" ELSE "returned"
    /\ UNCHANGED <<argv, tasks, prompt, out_dir, xvfb_proc, ffmpeg_proc,
                     history, interaction_events, trimmed, verdict,
                     verdict_reasoning, probes, final_video_path, upload,
                     video_url, raised, result, exit_code, stdout,
                     stderr>>

\* ------------------------------------------------- cli.main, continued
\* cli.py:100-106: recording.mp4 if there, else the first mp4, else the
\* first webm (0 for none)
found_video(videos) == IF videos = <<>> THEN 0 ELSE 1

\* main_exit_code taking the verdict for the success flag.
main_exit_code_by_verdict(res) ==
    IF res.success /\ res.verdict = Str(S_pass) THEN 0 ELSE 1

\* cli.py:116-118
main_exit_code(res) == IF res.success THEN 0 ELSE 1

\* cli.py:100-118
main_report ==
    /\ pc = "returned"
    /\ UNCHANGED analyzer_vars
    /\ stdout' =
          << [key |-> "VERDICT", value |-> Or(result.verdict, Str(<<"unknown">>))],
             [key |-> "REASONING", value |-> Or(result.verdict_reasoning, Str(<<>>))],
             [key |-> "VIDEO", value |-> IntV(found_video(out_dir.videos))],
             [key |-> "OUTPUT_DIR", value |-> Str(<<"output_dir">>)] >>
          \o (IF Truthy(result.video_url)
              THEN <<[key |-> "VIDEO_URL", value |-> result.video_url]>>
              ELSE <<>>)
    /\ stderr' = IF result.success THEN stderr
                 ELSE <<[key |-> "ERROR", value |-> result.error]>>
    /\ exit_code' = main_exit_code(result)
    /\ pc' = "exit"
    /\ UNCHANGED <<argv, tasks, prompt, out_dir, xvfb_proc, ffmpeg_proc,
                     os_procs, calls, history, interaction_events,
                     trimmed, verdict, verdict_reasoning, probes,
                     final_video_path, upload, video_url, raised, result>>

\* cli.py:88-98: an exception leaving run_tasks leaves asyncio.run and main;
\* the interpreter prints the traceback and exits with status 1, or with
\* 130 on an interrupt
main_propagate ==
    /\ pc = "propagate"
    /\ UNCHANGED analyzer_vars
    /\ stderr' = <<[key |-> "Traceback", value |-> Str(<<raised>>)]>>
    /\ exit_code' = IF raised = "CancelledError" THEN 130 ELSE 1
    /\ pc' = "exit"
    /\ UNCHANGED <<argv, tasks, prompt, out_dir, xvfb_proc, ffmpeg_proc,
                     os_procs, calls, history, interaction_events,
                     trimmed, verdict, verdict_reasoning, probes,
                     final_video_path, upload, video_url, raised, result,
                     stdout>>

\* --------------------------------------------------------- DiffAnalyzer
\* diff_analyzer.py:63-75: the interaction types, in detection order.
InteractionOrder ==
    <<"click_button", "fill_form", "type_input", "select_option",
      "open_modal", "click_link">>
InteractionTypes == {InteractionOrder[i] : i \in 1..Len(InteractionOrder)}

\* The markers the content of a file can hold, by the interaction type
\* each one makes analyze_file detect.
MarkerSets ==
    { {}, {"click_button"}, {"type_input"}, {"fill_form", "select_option"},
      {"open_modal", "click_link"}, InteractionTypes }
\* The route _extract_route gives the path, "none" for a path outside app/
\* and pages/.
Routes == {"none", "/", "/about"}

\* A file git names: whether its suffix and its directories are those of a
\* UI file, its route, whether it is on disk and can be read, and the
\* markers in its content.
UIFileSamples ==
    { [suffix |-> TRUE, dir |-> TRUE, route |-> r, disk |-> "readable",
       markers |-> ms] : r \in Routes, ms \in MarkerSets }
    \cup { [suffix |-> TRUE, dir |-> TRUE, route |-> r, disk |-> d,
            markers |-> {}] : r \in Routes, d \in {"missing", "unreadable"} }
OtherFileSamples ==
    { [suffix |-> FALSE, dir |-> TRUE, route |-> "none", disk |-> "readable",
       markers |-> {}],
      [suffix |-> TRUE, dir |-> FALSE, route |-> "none", disk |-> "readable",
       markers |-> {"click_button"}] }
FileSamples == UIFileSamples \cup OtherFileSamples
FileLists == UNION { [1..n -> FileSamples] : n \in 0..MaxFiles }

\* What a call of git comes to: the program cannot be started (subprocess
\* raises FileNotFoundError), it exits non-zero with nothing on stdout, or
\* it lists files.
GitOutcomes == {"missing", "fails", "ok"}

\* diff_analyzer.py:28-38
get_ui_files(files) == SelectSeq(files, LAMBDA f : f.suffix /\ f.dir)

\* diff_analyzer.py:63-75
DetectInteractions(markers) ==
    SelectSeq(InteractionOrder, LAMBDA i : i \in markers)

\* diff_analyzer.py:40-83.  The component name, which nothing reads, and
\* the path are left out of the UIChange.
analyze_file(f) ==
    [change_type |-> IF f.disk = "missing" THEN "deleted" ELSE "modified",
     route |-> f.route,
     interactions |-> IF f.disk = "missing" THEN <<>>
                      ELSE DetectInteractions(f.markers)]

\* diff_analyzer.py:120-128: the clause of one interaction, if it has one.
InteractionClause(interaction) ==
    CASE interaction = "click_button" -> <<"Find and click any visible buttons">>
      [] interaction = "fill_form" -> <<"If there's a form, fill it with test data">>
      [] interaction = "open_modal" -> <<"If there's a modal trigger, open it">>
      [] interaction = "click_link" -> <<"Click on navigation links to explore">>
      [] OTHER -> <<>>

RECURSIVE InteractionClauses(_)
InteractionClauses(interactions) ==
    IF interactions = <<>> THEN <<>>
    ELSE InteractionClause(Head(interactions))
         \o InteractionClauses(Tail(interactions))

\* diff_analyzer.py:114-128: the clauses of the changes, given the routes
\* visited so far.
RECURSIVE ChangeClauses(_, _)
ChangeClauses(chs, visited_routes) ==
    IF chs = <<>> THEN <<>>
    ELSE LET change == Head(chs)
             fresh == change.route /= "none"
                        /\ change.route \notin visited_routes
         IN  (IF fresh /\ change.route /= "/"
              THEN <<"Then navigate to " \o change.route>> ELSE <<>>)
             \o InteractionClauses(change.interactions)
             \o ChangeClauses(Tail(chs),
                               IF fresh THEN visited_routes \cup {change.route}
                               ELSE visited_routes)

\* ". ".join(task_parts) + ".": the text as its pieces
RECURSIVE Join(_)
Join(task_parts) ==
    IF Len(task_parts) = 1 THEN <<task_parts[1], ".">>
    ELSE <<Head(task_parts), ". ">> \o Join(Tail(task_parts))

\* diff_analyzer.py:110-133
generate_task(chs, base_url) ==
    Join(<<"Navigate to " \o base_url>>
         \o ChangeClauses(chs, {})
         \o <<"Take your time to show each interaction clearly",
              "Wait 2 seconds between actions for visibility">>)

\* diff_analyzer.py:136-137 with 19-26: git diff --name-only, then the UI
\* files among the files it names
analyze_get_changed_files ==
    /\ analyze_pc = "get_changed_files"
    /\ \E o \in GitOutcomes, files \in FileLists :
          /\ git' = o
          /\ IF o = "missing"
             THEN /\ analyze_raised' = "FileNotFoundError"
                  /\ analyze_pc' = "raised"
                  /\ UNCHANGED <<changed, ui_files>>
             ELSE /\ changed' = (IF o = "ok" THEN files ELSE <<>>)
                  /\ ui_files' = get_ui_files(changed')
                  /\ analyze_pc' = (IF ui_files' = <<>> THEN "status"
                                    ELSE "analyze_file")
                  /\ analyze_raised' = analyze_raised
    /\ UNCHANGED <<changes, task>>
    /\ UNCHANGED runner_vars

\* diff_analyzer.py:139-148: the fallback on git status --porcelain
analyze_status ==
    /\ analyze_pc = "status"
    /\ \E o \in GitOutcomes, files \in FileLists :
          /\ git' = o
          /\ IF o = "missing"
             THEN /\ analyze_raised' = "FileNotFoundError"
                  /\ analyze_pc' = "raised"
                  /\ ui_files' = ui_files
             ELSE /\ ui_files' = get_ui_files(IF o = "ok" THEN files ELSE <<>>)
                  /\ analyze_pc' = "analyze_file"
                  /\ analyze_raised' = analyze_raised
    /\ UNCHANGED <<changed, changes, task>>
    /\ UNCHANGED runner_vars

\* diff_analyzer.py:150: analyze_file of every UI file; read_text raises on
\* a file that is on disk and cannot be read or decoded
analyze_changes ==
    /\ analyze_pc = "analyze_file"
    /\ IF \E i \in 1..Len(ui_files) : ui_files[i].disk = "unreadable"
       THEN /\ analyze_raised' = "OSError"
            /\ analyze_pc' = "raised"
            /\ changes' = changes
       ELSE /\ changes' = [i \in 1..Len(ui_files) |-> analyze_file(ui_files[i])]
            /\ analyze_pc' = "generate_task"
            /\ analyze_raised' = analyze_raised
    /\ UNCHANGED <<git, changed, ui_files, task>>
    /\ UNCHANGED runner_vars

\* diff_analyzer.py:151
analyze_return ==
    /\ analyze_pc = "generate_task"
    /\ task' = generate_task(changes, "http://localhost:3000")
    /\ analyze_pc' = "returned"
    /\ UNCHANGED <<git, changed, ui_files, changes, analyze_raised>>
    /\ UNCHANGED runner_vars

Next ==
    \/ main_parse
    \/ run_tasks_mkdir
    \/ run_tasks_build_prompt
    \/ run_tasks_start_xvfb
    \/ run_tasks_configure
    \/ run_tasks_start_rec
    \/ run_tasks_agent_run
    \/ run_tasks_agent_done
    \/ run_tasks_extract
    \/ run_tasks_stop_rec
    \/ run_tasks_trim
    \/ run_tasks_verdict
    \/ run_tasks_probe
    \/ run_tasks_upload
    \/ run_tasks_report
    \/ run_tasks_except
    \/ run_tasks_finally_ffmpeg
    \/ run_tasks_finally_xvfb
    \/ main_report
    \/ main_propagate

Spec == Init /\ [][Next]_vars

\* The same pipeline with the interaction events as the subject: the
\* command line names one well-formed task and no upload endpoint, and the
\* agent session leaves any of the event histories.
InitEvents ==
    /\ Init
    /\ argv.tasks = [json |-> "array", elems |-> <<"task">>]
    /\ ~argv.convex_url

run_tasks_extract_events == run_tasks_extract_from(EventHistories)

\* The judge passes the session or is absent; the session has no final text.
EventJudgements ==
    {None_, Dict([k \in {"verdict", "reasoning"} |->
                     IF k = "verdict" THEN Bool(TRUE) ELSE Str(S_ok)])}
run_tasks_verdict_events == run_tasks_verdict_from(EventJudgements, {None_})

NextEvents ==
    \/ main_parse
    \/ run_tasks_mkdir
    \/ run_tasks_build_prompt
    \/ run_tasks_start_xvfb
    \/ run_tasks_configure
    \/ run_tasks_start_rec
    \/ run_tasks_agent_run
    \/ run_tasks_agent_done
    \/ run_tasks_extract_events
    \/ run_tasks_stop_rec
    \/ run_tasks_trim
    \/ run_tasks_verdict_events
    \/ run_tasks_probe
    \/ run_tasks_upload
    \/ run_tasks_report
    \/ run_tasks_except
    \/ run_tasks_finally_ffmpeg
    \/ run_tasks_finally_xvfb
    \/ main_report
    \/ main_propagate

SpecEvents == InitEvents /\ [][NextEvents]_vars

\* DiffAnalyzer.analyze on its own, called on a repository in any state.
InitAnalyze ==
    /\ InitRunner
    /\ argv = [tasks |-> [json |-> "array", elems |-> <<>>],
               headless |-> FALSE, convex_url |-> FALSE]
    /\ analyze_pc = "get_changed_files"
    /\ git = "none"
    /\ changed = <<>>
    /\ ui_files = <<>>
    /\ changes = <<>>
    /\ task = <<>>
    /\ analyze_raised = ""

NextAnalyze ==
    \/ analyze_get_changed_files
    \/ analyze_status
    \/ analyze_changes
    \/ analyze_return

SpecAnalyze == InitAnalyze /\ [][NextAnalyze]_vars

\* ============================================================== claims
Range(seq) == {seq[i] : i \in 1..Len(seq)}
Count(seq, x) == Cardinality({i \in 1..Len(seq) : seq[i] = x})

\* run_tasks has been left, by a return or by an exception
RunTasksLeft == pc \in {"returned", "propagate"}
BothStarted == {"start_xvfb", "start_screen_recording"} \subseteq Range(calls)

\* C1: once run_tasks is left after both processes were started, a stop of
\* the capture and a stop of the display were both attempted, the capture
\* stop first.
C1_CleanupAttemptedInOrder ==
    (RunTasksLeft /\ BothStarted) =>
        \E i, j \in 1..Len(calls) :
            /\ i < j
            /\ calls[i] = "stop_screen_recording"
            /\ calls[j] = "stop_xvfb"

\* C2: once run_tasks is left after both processes were started, each of
\* the two stop operations was invoked exactly once.
C2_EachStopExactlyOnce ==
    (RunTasksLeft /\ BothStarted) =>
        /\ Count(calls, "stop_screen_recording") = 1
        /\ Count(calls, "stop_xvfb") = 1

\* C3: run_tasks never raises; it is left only by returning a TasksResult.
C3_RunTasksNeverRaises ==
    /\ pc /= "propagate"
    /\ pc = "returned" => result.t = "TasksResult"

\* C4: a trim step that does not replace the recording leaves the events
\* as they are and lets the run go on to the verdict; it never raises.
C4_TrimFailureNotFatal ==
    [][(pc = "trim" /\ argv.headless /\ ~trimmed') =>
          /\ pc' = "verdict"
          /\ raised' = ""
          /\ interaction_events' = interaction_events]_vars

\* the upload stopped on a failed call: a transport error on any call, or
\* a first or second call that did not deliver its value
UploadFailed(u) ==
    /\ u /= <<>>
    /\ \/ u[Len(u)] = "error"
       \/ Len(u) <= 2 /\ u[Len(u)] /= "ok"

\* C5: an upload that fails yields no URL without raising, and the run
\* goes on to the report as it does with no upload endpoint.
C5_UploadFailureNotFatal ==
    [][(pc = "upload" /\ UploadFailed(upload') /\ raised' /= "CancelledError") =>
          /\ pc' = "report"
          /\ raised' = ""
          /\ video_url' = None_]_vars

\* the --tasks argument is malformed: not JSON, not an array, an empty
\* array, or an array with an element that is not a complete task object
Malformed(a) ==
    \/ a.json /= "array"
    \/ a.elems = <<>>
    \/ \E i \in 1..Len(a.elems) : a.elems[i] /= "task"

\* C6: a malformed task list is rejected with a non-zero exit status and
\* without a side effect: no output directory, no process, no agent.
C6_MalformedRejectedBeforeSideEffect ==
    Malformed(argv.tasks) =>
        /\ ~out_dir.created
        /\ calls = <<>>
        /\ pc = "exit" => exit_code /= 0

Returned(success) == result.t = "TasksResult" /\ result.success = success
ReportKeys == <<"VERDICT", "REASONING", "VIDEO", "OUTPUT_DIR">>
ErrorLine == \E i \in 1..Len(stderr) : stderr[i].key = "ERROR"

\* C7: the process exits with status 0 exactly when run_tasks returned
\* success=True, the four report lines printed; a failed run and a rejected
\* --tasks argument print an ERROR: line and exit with status 1.
C7_ExitCodeFollowsSuccess ==
    pc = "exit" =>
        /\ exit_code = 0 <=> Returned(TRUE)
        /\ Returned(TRUE) =>
              /\ Len(stdout) >= 4
              /\ \A i \in 1..4 : stdout[i].key = ReportKeys[i]
        /\ (Returned(FALSE) \/ argv.tasks.json /= "array" \/ argv.tasks.elems = <<>>) =>
              /\ exit_code = 1
              /\ ErrorLine

\* a run judged 'fail' that succeeded has exited with status 0
C7_Witness ==
    /\ pc = "exit"
    /\ Returned(TRUE)
    /\ result.verdict = Str(S_fail)
    /\ exit_code = 0

\* C8: once resolved, the verdict is one of the two labels.
C8_VerdictIsPassOrFail ==
    verdict.t = "str" => verdict.v \in {S_pass, S_fail}

\* the lower-case form of every verdict string of the model, written out
LowerCased(str) ==
    CASE str = S_PASS -> S_pass
      [] str = S_FAIL -> S_fail
      [] str = S_Maybe -> S_maybe
      [] OTHER -> str

HasText(d, k) == d.t = "dict" /\ k \in DOMAIN d.v /\ d.v[k].t = "str" /\ d.v[k].v /= <<>>
RawVerdict(d) == IF d.t = "dict" /\ "verdict" \in DOMAIN d.v THEN d.v["verdict"] ELSE None_
CompletionLabel == IF history.is_done THEN S_pass ELSE S_fail
FinalText == IF history.final_result.t = "str" THEN history.final_result.v ELSE <<>>

\* C9: a boolean verdict gives pass or fail, a string verdict its
\* lower-case form, anything else pass iff the agent is done; the reasoning
\* is the judgement's reasoning, else its failure_reason, else the final
\* result text, else empty.
C9_VerdictMapping ==
    history.asked =>
        LET j == history.judgement
            raw == RawVerdict(j)
        IN  /\ raw.t = "bool" => verdict.v = (IF raw.v THEN S_pass ELSE S_fail)
            /\ raw.t = "str" => verdict.v = LowerCased(raw.v)
            /\ raw.t \notin {"bool", "str"} => verdict.v = CompletionLabel
            /\ verdict_reasoning.t = "str"
            /\ verdict_reasoning.v =
                  (IF HasText(j, "reasoning") THEN j.v["reasoning"].v
                   ELSE IF HasText(j, "failure_reason") THEN j.v["failure_reason"].v
                   ELSE FinalText)

\* the verdict "FAIL" was folded to 'fail', the reasoning taken from
\* failure_reason
C9_Witness ==
    /\ history.asked
    /\ RawVerdict(history.judgement) = Str(S_FAIL)
    /\ verdict = Str(S_fail)
    /\ ~HasText(history.judgement, "reasoning")
    /\ verdict_reasoning = Str(S_why)

\* C10: when every probe ran to its end, the first candidate that probes
\* as valid is the final video, a later valid one does not replace it, and
\* no candidate is deleted.
C10_FirstValidCandidateWins ==
    (/\ probes /= <<>>
     /\ \A i \in 1..Len(probes) : probes[i] /= "error"
     /\ \E i \in 1..Len(probes) : probes[i] = "valid") =>
        /\ final_video_path /= 0
        /\ probes[final_video_path] = "valid"
        /\ \A i \in 1..(final_video_path - 1) : probes[i] /= "valid"
        /\ Len(out_dir.videos) = Len(probes)

\* every call logged as a comes before every call logged as b
Before(a, b) ==
    \A i, j \in 1..Len(calls) : (calls[i] = a /\ calls[j] = b) => i < j
\* the agent session that began at position j of the log ended before i
SessionOverBefore(i) ==
    \E j, k \in 1..Len(calls) :
        /\ j < k /\ k < i
        /\ calls[j] = "agent.run"
        /\ calls[k] \in {"agent.returned", "agent.raised"}
AfterSession == {"trim", "probe", "upload"}

\* C16: in a headless run the display is started before the capture and
\* the capture before the agent run begins, both are running whenever the
\* agent run begins, the capture is not stopped while the agent session is
\* under way, and the video is trimmed, probed or uploaded only after the
\* session has returned or raised; in a non-headless run neither process is
\* ever started.
C16_ProcessesBracketSession ==
    /\ argv.headless =>
          /\ Before("start_xvfb", "start_screen_recording")
          /\ Before("start_screen_recording", "agent.run")
          /\ "agent.run" \in Range(calls) => BothStarted
          /\ pc = "agent_running" =>
                /\ os_procs.xvfb = "running"
                /\ os_procs.ffmpeg = "running"
                /\ "stop_screen_recording" \notin Range(calls)
          /\ \A i \in 1..Len(calls) :
                /\ calls[i] \in AfterSession => SessionOverBefore(i)
                /\ (calls[i] = "stop_screen_recording"
                        /\ "agent.run" \in Range(calls))
                     => SessionOverBefore(i)
    /\ ~argv.headless =>
          /\ "start_xvfb" \notin Range(calls)
          /\ "start_screen_recording" \notin Range(calls)
          /\ xvfb_proc = "None" /\ ffmpeg_proc = "None"
          /\ os_procs.xvfb /= "running" /\ os_procs.ffmpeg /= "running"

\* a headless run that went through every stage of the bracket
C16_Witness ==
    /\ argv.headless
    /\ pc = "returned"
    /\ {"start_xvfb", "start_screen_recording", "agent.run",
        "agent.returned", "stop_screen_recording", "trim", "probe",
        "upload", "stop_xvfb"} \subseteq Range(calls)

\* what the claim has upload_to_convex return for the calls u it made
ClaimedUploadResult(u) ==
    IF Len(u) <= 2 THEN None_
    ELSE IF u[3] = "ok" THEN ViewableUrl
    ELSE StorageRef

\* C13: upload_to_convex makes its calls in sequence, the byte upload only
\* after a 200 carrying an upload URL and the URL query only after a 200
\* carrying a storage id, stops at the first failed call of the first two,
\* and returns None if the first or second call failed, the viewable URL if
\* the third returned one, and the storage reference otherwise.
C13_UploadProtocol ==
    [][(pc = "upload" /\ upload' /= <<>> /\ raised' /= "CancelledError") =>
          /\ Len(upload') >= 2 => upload'[1] = "ok"
          /\ Len(upload') = 3 => upload'[2] = "ok"
          /\ Len(upload') <= 2 => upload'[Len(upload')] /= "ok"
          /\ pc' = "report"
          /\ video_url' = ClaimedUploadResult(upload')]_vars

\* C18 as stated: a TasksResult that run_tasks returned either has
\* success=True, a verdict and no error, with summary.md and events.json
\* written, or has success=False, an error, no verdict, reasoning or video
\* URL and no events, and then the run wrote neither summary.md nor
\* events.json.
C18_TwoResultShapes ==
    (pc = "returned" /\ result.t = "TasksResult") =>
        \/ /\ result.success
           /\ result.verdict /= None_
           /\ result.error = None_
           /\ out_dir.summary /\ out_dir.events_json
        \/ /\ ~result.success
           /\ result.error /= None_
           /\ result.verdict = None_
           /\ result.verdict_reasoning = None_
           /\ result.video_url = None_
           /\ result.interaction_events = <<>>
           /\ ~out_dir.summary /\ ~out_dir.events_json

\* C18, amended: the two shapes are as stated, and a run that returns
\* success=False has not written events.json; it has written summary.md
\* only if it got as far as the report with a verdict and the write of
\* events.json that follows the summary raised.
C18_ResultShapes ==
    (pc = "returned" /\ result.t = "TasksResult") =>
        \/ /\ result.success
           /\ result.verdict /= None_
           /\ result.error = None_
           /\ out_dir.summary /\ out_dir.events_json
        \/ /\ ~result.success
           /\ result.error /= None_
           /\ result.verdict = None_
           /\ result.verdict_reasoning = None_
           /\ result.video_url = None_
           /\ result.interaction_events = <<>>
           /\ ~out_dir.events_json
           /\ out_dir.summary =>
                 /\ verdict /= None_
                 /\ result.error = ExcText("OSError")

\* a failed result of a run whose session completed with events and a
\* video URL, and which wrote summary.md before it failed
C18_Witness ==
    /\ pc = "returned"
    /\ result.t = "TasksResult"
    /\ ~result.success
    /\ out_dir.summary
    /\ interaction_events /= <<>>
    /\ video_url /= None_

Ascending(events) ==
    \A i, j \in 1..Len(events) : i < j => events[i].atMs <= events[j].atMs
\* e shifted down by the 6.5 s of the trim, floored at zero
ShiftedDown(e, f) ==
    /\ f.atMs = (IF e.atMs > 6500 THEN e.atMs - 6500 ELSE 0)
    /\ f.type = e.type /\ f.x = e.x /\ f.y = e.y

\* C11: the trim step that replaces the recording by the trimmed file maps
\* every event's atMs to max(0, atMs - 6500), changes nothing else and
\* leaves the list ascending; a trim step that does not replace it (the run
\* is not headless, so the offset is 0, or the trim failed) leaves every
\* event as it was, and the events were ascending before either.
C11_TrimRebasesEvents ==
    [][pc = "trim" =>
          /\ Ascending(interaction_events)
          /\ ~argv.headless => ~trimmed'
          /\ IF trimmed'
             THEN /\ Len(interaction_events') = Len(interaction_events)
                  /\ \A i \in 1..Len(interaction_events) :
                        ShiftedDown(interaction_events[i],
                                    interaction_events'[i])
                  /\ Ascending(interaction_events')
             ELSE interaction_events' = interaction_events]_vars

\* a trimmed run whose history had an event at 3000 ms, now floored at 0,
\* and one at 9000 ms, now at 2500
C11_Witness ==
    /\ pc = "verdict"
    /\ trimmed
    /\ Len(interaction_events) = 2
    /\ interaction_events[1].atMs = 0
    /\ interaction_events[2].atMs = 2500
    /\ Len(history.steps) = 2
    /\ history.steps[1].metadata /\ history.steps[1].time = 3000
    /\ history.steps[2].metadata /\ history.steps[2].time = 9000

\* the positions (step, action) of a history, and the action at one
Positions(h) ==
    UNION { {<<st, i>> : i \in 1..Len(h[st].actions)} : st \in 1..Len(h) }
ActionAt(h, p) == h[p[1]].actions[p[2]]
Shape(e) == [type |-> e.type, x |-> e.x, y |-> e.y]
NoEvent == [type |-> "none", x |-> -1, y |-> -1]
PointerKinds == {"click_element", "click", "input_text", "type"}
ScrollKinds == {"scroll_down", "scroll_up", "scroll"}
\* the extraction has just returned: its result is untouched
JustExtracted == pc = "stop_rec"

\* the event the claim as stated has an action yield: each coordinate from
\* the metadata if it is there and from the parameters otherwise
StatedEvent(a) ==
    LET x == IF a.meta.x /= -1 THEN a.meta.x ELSE a.params.x
        y == IF a.meta.y /= -1 THEN a.meta.y ELSE a.params.y
    IN  IF a.type \in PointerKinds
        THEN IF x /= -1 /\ y /= -1
             THEN [type |-> "click", x |-> x, y |-> y]
             ELSE NoEvent
        ELSE IF a.type \in ScrollKinds
        THEN [type |-> "scroll", x |-> 960, y |-> 540]
        ELSE NoEvent

\* the event of the amended claim: the pair of coordinates comes from one
\* place, the metadata when it carries an x and the parameters otherwise
PairedEvent(a) ==
    IF a.type \in PointerKinds
    THEN IF a.meta.x /= -1 /\ a.meta.y /= -1
         THEN [type |-> "click", x |-> a.meta.x, y |-> a.meta.y]
         ELSE IF a.meta.x = -1 /\ a.params.x /= -1 /\ a.params.y /= -1
         THEN [type |-> "click", x |-> a.params.x, y |-> a.params.y]
         ELSE NoEvent
    ELSE IF a.type \in ScrollKinds
    THEN [type |-> "scroll", x |-> 960, y |-> 540]
    ELSE NoEvent

\* the events are, up to their order and times, the events that Yield
\* gives the actions of the history h, one per action at most
EventsAre(Yield(_), h, events) ==
    /\ Len(events) =
          Cardinality({p \in Positions(h) : Yield(ActionAt(h, p)) /= NoEvent})
    /\ \A k \in 1..Len(events) :
          Cardinality({n \in 1..Len(events) : Shape(events[n]) = Shape(events[k])})
          = Cardinality({p \in Positions(h) :
                           Yield(ActionAt(h, p)) = Shape(events[k])})

\* C15 as stated: a click or text-input action yields a click event exactly
\* when an x and a y can be resolved, each from the result metadata if
\* present and else from the action parameters, a scroll action yields one
\* scroll event at (960, 540), and any other action yields none.
C15_EventPerAction ==
    JustExtracted => EventsAre(StatedEvent, history.steps, interaction_events)

\* C15, amended: the two coordinates are resolved as a pair, from the
\* metadata when it carries an x and from the parameters otherwise, and the
\* click event is yielded exactly when that one place carries both.
C15_EventPerActionPaired ==
    JustExtracted => EventsAre(PairedEvent, history.steps, interaction_events)

\* a click whose metadata carries an x only and whose parameters carry
\* both coordinates: no event
C15_Witness ==
    /\ JustExtracted
    /\ Len(history.steps) = 1
    /\ Len(history.steps[1].actions) = 1
    /\ history.steps[1].actions[1] =
          [type |-> "click", meta |-> [x |-> 100, y |-> -1], params |-> ParamXY]
    /\ interaction_events = <<>>

NonNegative(events) == \A i \in 1..Len(events) : events[i].atMs >= 0
\* event e of the list is the event w of an action of the history, at the
\* time of its step or, once the recording is trimmed, at that time rebased
EventOf(e, w) ==
    /\ Shape(e) = Shape(w)
    /\ IF trimmed THEN ShiftedDown(w, e) ELSE e.atMs = w.atMs
\* the list holds the events of the history's actions, and events with
\* equal atMs are in the order of their actions in the history
TiesInHistoryOrder(h, events) ==
    LET walk == WalkHistory(h)
    IN  /\ Len(events) = Len(walk)
        /\ \E at \in Permutations(1..Len(events)) :
              /\ \A k \in 1..Len(events) : EventOf(events[k], walk[at[k]])
              /\ \A i, j \in 1..Len(events) :
                    (i < j /\ events[i].atMs = events[j].atMs)
                        => at[i] < at[j]
\* the list is, place by place, the list the extraction returned, rebased
\* once the recording is trimmed
InExtractedOrder(h, events) ==
    LET extracted == extract_interaction_events(h)
    IN  /\ Len(events) = Len(extracted)
        /\ \A k \in 1..Len(events) : EventOf(events[k], extracted[k])
\* the trim step is over: the list is the one a successful run returns
EventsFinal == pc = "verdict"

\* C12 as stated: the list extract_interaction_events returns and the list
\* the run goes on to return are ascending by atMs with no negative atMs,
\* and events with equal atMs are in the order of their actions in the
\* agent history.
C12_SortedTiesInHistoryOrder ==
    (JustExtracted \/ EventsFinal) =>
        /\ Ascending(interaction_events)
        /\ NonNegative(interaction_events)
        /\ TiesInHistoryOrder(history.steps, interaction_events)

\* C12, amended: both lists are ascending with no negative atMs; in the
\* list extract_interaction_events returns, events with equal atMs are in
\* the order of their actions in the history; the final list is that list
\* in the same order, rebased if the recording was trimmed; no later step
\* changes it, and a successful run returns it and has written events.json.
C12_SortedInExtractedOrder ==
    /\ [](/\ (JustExtracted \/ EventsFinal) =>
               /\ Ascending(interaction_events)
               /\ NonNegative(interaction_events)
               /\ InExtractedOrder(history.steps, interaction_events)
          /\ JustExtracted =>
               TiesInHistoryOrder(history.steps, interaction_events)
          /\ (pc = "returned" /\ Returned(TRUE)) =>
               /\ result.interaction_events = interaction_events
               /\ out_dir.events_json)
    /\ [][pc \notin {"extract", "trim"} =>
             interaction_events' = interaction_events]_vars

\* a trimmed run whose click came first in the history, in a step timed at
\* 3000 ms, and whose scroll came second, in a step without timing: both
\* events are at 0 and the scroll is first
C12_Witness ==
    /\ EventsFinal
    /\ trimmed
    /\ Len(history.steps) = 2
    /\ history.steps[1].metadata /\ history.steps[1].time = 3000
    /\ ~history.steps[2].metadata
    /\ Len(interaction_events) = 2
    /\ interaction_events[1].type = "scroll"
    /\ interaction_events[2].type = "click"
    /\ interaction_events[1].atMs = 0
    /\ interaction_events[2].atMs = 0

\* analyze is over, by a return or by an exception
AnalyzeLeft == analyze_pc \in {"returned", "raised"}
\* the task of an empty change list
MinimalTask ==
    <<"Navigate to http://localhost:3000", ". ",
      "Take your time to show each interaction clearly", ". ",
      "Wait 2 seconds between actions for visibility", ".">>
\* the cases of the claim: git could not be started or failed, the diff
\* named no file, or a changed UI file is not on disk
GitFailed == git \in {"missing", "fails"}
FileMissing == \E i \in 1..Len(ui_files) : ui_files[i].disk = "missing"

\* C14: DiffAnalyzer.analyze never raises, and when git cannot be invoked
\* or fails, or a changed file is missing from disk, it returns an empty
\* change list together with the minimal task.
C14_AnalyzeNeverFailsHard ==
    AnalyzeLeft =>
        /\ analyze_pc = "returned"
        /\ analyze_raised = ""
        /\ (GitFailed \/ FileMissing) =>
              /\ changes = <<>>
              /\ task = MinimalTask

\* the number of clauses the claim has generate_task build for the changes
RECURSIVE StatedClauseCount(_, _)
StatedClauseCount(chs, visited) ==
    IF chs = <<>> THEN 0
    ELSE LET change == Head(chs)
             nav == change.route \notin ({"none", "/"} \cup visited)
         IN  (IF nav THEN 1 ELSE 0)
             + Len(change.interactions)
             + StatedClauseCount(Tail(chs), visited \cup {change.route})
\* the clauses of a task text: every other piece of it
ClausesOf(text) == [k \in 1..(Len(text) \div 2) |-> text[2 * k - 1]]

\* C17: the task generate_task builds is the navigate-to-base-URL clause,
\* then for each change in order a route clause if its route is neither the
\* root nor visited, followed by one clause for each of its detected
\* interaction types, all six included, and last the two pacing clauses.
C17_ClausePerInteraction ==
    analyze_pc = "returned" =>
        LET clauses == ClausesOf(task)
        IN  /\ Len(clauses) = 3 + StatedClauseCount(changes, {})
            /\ clauses[1] = "Navigate to http://localhost:3000"
            /\ clauses[Len(clauses) - 1]
                  = "Take your time to show each interaction clearly"
            /\ clauses[Len(clauses)]
                  = "Wait 2 seconds between actions for visibility"

====
